---- MODULE Spec2Model ----
(***************************************************************************)
(* Billing / subscription state machine of the merchant platform:          *)
(* plan intent, subscription checkout, cancellation and the Paystack       *)
(* webhook handler, over the merchant_plans and merchant_invoices tables.  *)
(***************************************************************************)
EXTENDS Integers, Sequences, FiniteSets, TLC

\* ------------------------------------------------------------------------
\* Bounds of the model
\* ------------------------------------------------------------------------
MaxInvoices == 2
\* last day of the clock of the sweeper's specification
MaxDay == 60
\* days between two ticks of that clock
SweepCadence == 15
ProviderDateDay == 45
\* largest id a book of the in-memory store gets
MaxBookId == 7

\* ------------------------------------------------------------------------
\* Values
\* ------------------------------------------------------------------------
Tenants == {"t1", "t2"}

\* NULL of a nullable string column / of a nullable integer or datetime column
NullStr == "NULL"
Null == -1

\* subscription codes and cancel tokens the provider issues; SUB_A and TOK_0
\* are the ones stored for a tenant that is subscribed already
SubCodes == {"SUB_A", "SUB_B"}
InitialToken == "TOK_0"
EventToken == "TOK_1"

PLAN_MAPPING ==
  [p \in {"STARTER", "GROWTH", "PRO"} |->
     CASE p = "STARTER" -> "PLN_i6att5rfn5hypyl"
       [] p = "GROWTH"  -> "PLN_8hp9tz0uyzjxvp7"
       [] p = "PRO"     -> "PLN_uo1i43zue58y532"]

_PLAN_CATALOGUE ==
  [p \in {"STARTER", "GROWTH", "PRO"} |->
    [i \in {"monthly"} |->
      [c \in {"NGN", "USD"} |->
         CASE p = "STARTER" /\ c = "NGN" -> [quota_messages |-> 400,  price |-> 10000]
           [] p = "STARTER" /\ c = "USD" -> [quota_messages |-> 400,  price |-> 39]
           [] p = "GROWTH"  /\ c = "NGN" -> [quota_messages |-> 1500, price |-> 25000]
           [] p = "GROWTH"  /\ c = "USD" -> [quota_messages |-> 1500, price |-> 99]
           [] p = "PRO"     /\ c = "NGN" -> [quota_messages |-> 6000, price |-> 60000]
           [] p = "PRO"     /\ c = "USD" -> [quota_messages |-> 6000, price |-> 249]]]]

\* timedelta(days=30)
CycleDays == 30

\* Decimal(100): kobo per naira
KoboPerUnit == 100

\* a next_payment_date the provider sends, and a string that is no date
ProviderDate == "2026-02-14T00:00:00Z"
BadDate == "soon"

\* plan and interval strings a caller may send
PlanInputs == {"GROWTH", "growth", "STARTER", "BASIC"}
IntervalInputs == {"monthly", "yearly"}

\* the strings the catalogue lookup is exercised with
ResolvePlans == {"GROWTH", "growth", " Pro ", "STARTER", "BASIC", "", " "}
ResolveIntervals == {"monthly", "Monthly", "yearly", "", " "}
ResolveCurrencies == {"NGN", "ngn", "USD", "GHS"}

\* str.strip().upper() and str.strip().lower() on the strings above
Upper(s) ==
  CASE s = "growth" -> "GROWTH"
    [] s = " Pro " -> "PRO"
    [] s = "basic" -> "BASIC"
    [] s = "ngn" -> "NGN"
    [] s = " " -> ""
    [] OTHER -> s

Lower(s) ==
  CASE s = "Monthly" -> "monthly"
    [] s = " " -> ""
    [] OTHER -> s

VARIABLES plans, profiles, invoices, now, last, sweeper, deliveries, BOOKS

vars == <<plans, profiles, invoices, now, last, sweeper, deliveries, BOOKS>>

\* ------------------------------------------------------------------------
\* Rows
\* ------------------------------------------------------------------------
\* a row whose is_active column defaults to true
FreshPlan_Active(lock, sub, tok) ==
  [exists |-> TRUE,
   plan_code |-> "STARTER",
   status |-> "PENDING",
   is_active |-> TRUE,
   currency_lock |-> lock,
   billing_interval |-> NullStr,
   billing_cycle_start |-> Null,
   quota_messages |-> Null,
   price |-> Null,
   cycle_reset_at |-> Null,
   paystack_plan_id |-> NullStr,
   paystack_subscription_code |-> sub,
   paystack_email_token |-> tok]

\* a MerchantPlan row as created by onboarding (column defaults)
FreshPlan(lock, sub, tok) ==
  [exists |-> TRUE,
   plan_code |-> "STARTER",
   status |-> "PENDING",
   is_active |-> FALSE,
   currency_lock |-> lock,
   billing_interval |-> NullStr,
   billing_cycle_start |-> Null,
   quota_messages |-> Null,
   price |-> Null,
   cycle_reset_at |-> Null,
   paystack_plan_id |-> NullStr,
   paystack_subscription_code |-> sub,
   paystack_email_token |-> tok]

\* db.get(MerchantPlan, tenant_id) returning None
NoPlan == [FreshPlan(NullStr, NullStr, NullStr) EXCEPT !.exists = FALSE]

\* the rows a tenant may have when the billing endpoints start serving it
TenantSetups ==
  { FreshPlan("NGN", NullStr, NullStr),
    FreshPlan("NGN", "SUB_A", InitialToken),
    FreshPlan("USD", NullStr, NullStr),
    FreshPlan("GHS", NullStr, NullStr),
    FreshPlan(NullStr, NullStr, NullStr) }

\* the last request served: operation, event name (known once the request is
\* authenticated), HTTP status, outcome, provider endpoint called
Served(op, event, code, status, provider) ==
  [op |-> op, event |-> event, code |-> code, status |-> status, provider |-> provider]

NoOp == Served("none", "none", 0, "none", "none")

\* the runs of the periodic rule that may overlap
Runs == {"run1", "run2"}

NoRun == [r \in Runs |-> "idle"]

\* the requests to the webhook endpoint that may be in progress at once
Slots == {"d1", "d2"}

\* a request in progress: where it stands, the event it carries, the committed
\* rows when it arrived, the rows its selects returned (none yet), whether it
\* is a redelivery, how its processing ended
Delivery(pc, payload, base_plans, base_invoices, redelivery, outcome) ==
  [pc |-> pc, payload |-> payload, base_plans |-> base_plans,
   base_invoices |-> base_invoices, read_plans |-> "none",
   read_invoices |-> "none", redelivery |-> redelivery, outcome |-> outcome]

NoDelivery ==
  [d \in Slots |-> Delivery("idle", "none", "none", "none", FALSE, "none")]

\* the billing application does not load the book store (books2.py is an
\* application of its own): its process holds no list of books
NoBooks == <<>>

Init ==
  /\ plans \in [Tenants -> TenantSetups \cup {NoPlan}]
  /\ plans["t1"] \in TenantSetups
  /\ plans["t2"] = NoPlan
  /\ profiles = [t \in Tenants |->
                   [exists |-> plans[t].exists, currency_lock |-> plans[t].currency_lock]]
  /\ invoices = <<>>
  /\ now = 0
  /\ last = NoOp
  /\ sweeper = NoRun
  /\ deliveries = NoDelivery
  /\ BOOKS = NoBooks

\* ------------------------------------------------------------------------
\* Plan catalogue (PlanIntentService._resolve_plan)
\* ------------------------------------------------------------------------
_normalize_plan(plan) ==
  LET value == Upper(plan) IN
  IF value = "" THEN [ok |-> FALSE, error |-> "PlanNotFoundError", value |-> value]
  ELSE [ok |-> TRUE, error |-> "none", value |-> value]

\* a normalisation that lets every non-empty interval through
_normalize_interval_NonEmpty(interval) ==
  LET value == Lower(interval) IN
  IF value = "" THEN [ok |-> FALSE, error |-> "PlanIntervalUnsupportedError", value |-> value]
  ELSE [ok |-> TRUE, error |-> "none", value |-> value]

\* interval.strip().lower(), "monthly" the only value accepted
_normalize_interval(interval) ==
  LET value == Lower(interval) IN
  IF value = "" THEN [ok |-> FALSE, error |-> "PlanIntervalUnsupportedError", value |-> value]
  ELSE IF value # "monthly"
    THEN [ok |-> FALSE, error |-> "PlanIntervalUnsupportedError", value |-> value]
  ELSE [ok |-> TRUE, error |-> "none", value |-> value]

ResolveError(e) ==
  [ok |-> FALSE, error |-> e, plan_code |-> NullStr, interval |-> NullStr,
   currency |-> NullStr, quota_messages |-> Null, price |-> Null]

_resolve_plan(plan, interval, currency) ==
  LET plan_key == _normalize_plan(plan)
      interval_key == _normalize_interval(interval)
      currency_key == Upper(currency)
  IN
  IF ~plan_key.ok THEN ResolveError(plan_key.error)
  ELSE IF ~interval_key.ok THEN ResolveError(interval_key.error)
  ELSE IF plan_key.value \notin DOMAIN _PLAN_CATALOGUE THEN ResolveError("PlanNotFoundError")
  ELSE IF interval_key.value \notin DOMAIN _PLAN_CATALOGUE[plan_key.value]
    THEN ResolveError("PlanIntervalUnsupportedError")
  ELSE IF currency_key \notin DOMAIN _PLAN_CATALOGUE[plan_key.value][interval_key.value]
    THEN ResolveError("PlanCurrencyMismatchError")
  ELSE
    LET plan_data == _PLAN_CATALOGUE[plan_key.value][interval_key.value][currency_key] IN
    [ok |-> TRUE, error |-> "none", plan_code |-> plan_key.value,
     interval |-> interval_key.value, currency |-> currency_key,
     quota_messages |-> plan_data.quota_messages, price |-> plan_data.price]

\* a call of the lookup on its own: the arguments and what it returned
ResolveCall(plan, interval, currency) ==
  /\ last' = [op |-> "_resolve_plan", plan |-> plan, interval |-> interval,
               currency |-> currency, result |-> _resolve_plan(plan, interval, currency)]
  /\ UNCHANGED <<plans, profiles, invoices, now, sweeper, deliveries, BOOKS>>

\* the HTTP status the plan-intent endpoint maps a service error to
IntentErrorCode(e) ==
  CASE e = "PlanCurrencyMismatchError" -> 409
    [] e = "PlanIntervalUnsupportedError" -> 400
    [] e = "PlanNotFoundError" -> 400
    [] e = "PlanPrerequisiteError" -> 400
    [] OTHER -> 500

\* ------------------------------------------------------------------------
\* PlanIntentService.apply_plan_intent
\* ------------------------------------------------------------------------
\* the attribute writes without the safety updates
IntentWrites_NoSafety(rec, selection, paystack_id, at) ==
  [rec EXCEPT !.plan_code = selection.plan_code,
              !.billing_interval = selection.interval,
              !.quota_messages = selection.quota_messages,
              !.price = selection.price,
              !.billing_cycle_start = at,
              !.paystack_plan_id = paystack_id]

\* the attribute writes with a safety update that clears the cycle end only
IntentWrites_KeepActive(rec, selection, paystack_id, at) ==
  [rec EXCEPT !.plan_code = selection.plan_code,
              !.billing_interval = selection.interval,
              !.quota_messages = selection.quota_messages,
              !.price = selection.price,
              !.billing_cycle_start = at,
              !.paystack_plan_id = paystack_id,
              !.cycle_reset_at = Null]

\* the attribute writes with a safety update that also returns the record to
\* the status it was created with
IntentWrites_ResetStatus(rec, selection, paystack_id, at) ==
  [rec EXCEPT !.plan_code = selection.plan_code,
              !.billing_interval = selection.interval,
              !.quota_messages = selection.quota_messages,
              !.price = selection.price,
              !.billing_cycle_start = at,
              !.paystack_plan_id = paystack_id,
              !.cycle_reset_at = Null,
              !.is_active = FALSE,
              !.status = "PENDING"]

\* the attribute writes of step 5 and the safety updates
IntentWrites(rec, selection, paystack_id, at) ==
  [rec EXCEPT !.plan_code = selection.plan_code,
              !.billing_interval = selection.interval,
              !.quota_messages = selection.quota_messages,
              !.price = selection.price,
              !.billing_cycle_start = at,
              !.paystack_plan_id = paystack_id,
              !.cycle_reset_at = Null,
              !.is_active = FALSE]

\* a validation that runs after the safety updates were flushed
Raise_AfterSafety(rec, e) ==
  [rec |-> IF rec.exists THEN [rec EXCEPT !.cycle_reset_at = Null, !.is_active = FALSE]
                         ELSE rec,
   error |-> e, audit |-> FALSE]

\* an exception of steps 1, 2 and 4, raised ahead of every attribute write
Raise(rec, e) == [rec |-> rec, error |-> e, audit |-> FALSE]

\* an except branch that keeps what was written
RollBack_None(rec, written, e) == [rec |-> written, error |-> e, audit |-> FALSE]

\* except Exception: await db.rollback(); raise
RollBack(rec, written, e) == [rec |-> rec, error |-> e, audit |-> FALSE]

\* result of the service call: the row afterwards, the error raised and
\* whether an audit entry was committed
PlanIntentOutcome(rec, plan, interval, at, auditOk) ==
  IF ~rec.exists \/ rec.currency_lock = NullStr
    THEN Raise(rec, "PlanPrerequisiteError")
  ELSE
    LET selection == _resolve_plan(plan, interval, rec.currency_lock) IN
    IF ~selection.ok THEN Raise(rec, selection.error)
    ELSE IF plan \notin DOMAIN PLAN_MAPPING THEN Raise(rec, "PlanNotFoundError")
    ELSE
      LET written == IntentWrites(rec, selection, PLAN_MAPPING[plan], at) IN
      IF ~auditOk THEN RollBack(rec, written, "PersistenceError")
      ELSE [rec |-> written, error |-> "none", audit |-> TRUE]

\* an intent that also moves the tenant to the currency of the checkout path
apply_plan_intent_Relock(t, plan, interval, auditOk) ==
  LET out == PlanIntentOutcome(plans[t], plan, interval, now, auditOk) IN
  /\ plans' = [plans EXCEPT ![t] = IF out.error = "none"
                                     THEN [out.rec EXCEPT !.currency_lock = "NGN"]
                                     ELSE out.rec]
  /\ last' = Served("apply_plan_intent", "none",
                     IF out.error = "none" THEN 200 ELSE IntentErrorCode(out.error),
                     out.error, "none")
  /\ UNCHANGED <<profiles, invoices, now, sweeper, deliveries, BOOKS>>

apply_plan_intent(t, plan, interval, auditOk) ==
  LET out == PlanIntentOutcome(plans[t], plan, interval, now, auditOk) IN
  /\ plans' = [plans EXCEPT ![t] = out.rec]
  /\ last' = Served("apply_plan_intent", "none",
                     IF out.error = "none" THEN 200 ELSE IntentErrorCode(out.error),
                     out.error, "none")
  /\ UNCHANGED <<profiles, invoices, now, sweeper, deliveries, BOOKS>>

\* ------------------------------------------------------------------------
\* Invoices (merchant_invoices rows; the id of a row is its index)
\* ------------------------------------------------------------------------
\* InvoiceService.create_pending_invoice / create_fixed_invoice: append a row
NewInvoice(tenant_id, amount, status) ==
  [tenant_id |-> tenant_id, amount |-> amount, status |-> status,
   category |-> "SUBSCRIPTION"]

\* InvoiceService.mark_invoice_paid: raises when the row does not exist
mark_invoice_paid(invs, invoice_id) ==
  IF invoice_id \in DOMAIN invs
    THEN [invs EXCEPT ![invoice_id].status = "PAID"]
    ELSE invs

\* str(invoice.id) and UUID(reference): a reference is a string; only the
\* strings InvoiceRef yields parse, to the id they were made from
InvoiceRef(id) == [text |-> "uuid", id |-> id]
NoReference == [text |-> "", id |-> 0]
BadReference == [text |-> "not-a-uuid", id |-> 0]
IsUUID(reference) == reference.text = "uuid"
ParseUUID(reference) == reference.id

RECURSIVE MarkAllPaid(_, _)
\* the loop over metadata.unpaid_invoice_ids; an id that fails to parse or to
\* resolve is skipped
MarkAllPaid(invs, refs) ==
  IF refs = <<>> THEN invs
  ELSE LET r == Head(refs) IN
       MarkAllPaid(IF IsUUID(r) THEN mark_invoice_paid(invs, ParseUUID(r)) ELSE invs,
                   Tail(refs))

\* ------------------------------------------------------------------------
\* Webhook signature
\* ------------------------------------------------------------------------
PAYSTACK_SECRET_KEY == "sk_live"
OtherKey == "sk_other"

\* hmac.new(key, raw_payload, sha512).hexdigest(): distinct (key, body) pairs
\* give distinct digests
Hmac(key, raw_payload) == <<key, raw_payload>>

\* request.headers.get("x-paystack-signature") when the header is absent
NoSignature == <<>>

\* a check of the header's presence only
VerifySignature_PresenceOnly(paystack_signature, raw_payload) ==
  IF paystack_signature = NoSignature THEN "Missing signature" ELSE "ok"

\* the two checks ahead of event handling: reason of the 401, or "ok"
VerifySignature(paystack_signature, raw_payload) ==
  IF paystack_signature = NoSignature THEN "Missing signature"
  ELSE IF Hmac(PAYSTACK_SECRET_KEY, raw_payload) # paystack_signature THEN "Invalid signature"
  ELSE "ok"

\* ------------------------------------------------------------------------
\* Webhook event handling
\* ------------------------------------------------------------------------
\* datetime.fromisoformat(next_payment_str.replace("Z", "+00:00"))
IsIsoDate(s) == s = ProviderDate
ParseIsoDate(s) == CASE s = ProviderDate -> ProviderDateDay

\* a WHERE clause that also asks for the status the transition starts from
SubCodeMatches_ActiveOnly(rec, sub_code) ==
  rec.exists /\ rec.paystack_subscription_code = sub_code /\ rec.status = "ACTIVE"

\* WHERE MerchantPlan.paystack_subscription_code == sub_code; with sub_code
\* None the comparison is rendered IS NULL
SubCodeMatches(rec, sub_code) ==
  rec.exists /\ rec.paystack_subscription_code = sub_code

MatchingTenants(pl, sub_code) == {t \in Tenants : SubCodeMatches(pl[t], sub_code)}

Reply(pl, invs, code, status) ==
  [plans |-> pl, invoices |-> invs, code |-> code, status |-> status]

\* a cancellation that revokes access at once
HandleDisable_Hard(pl, invs, data) ==
  LET sub_code == data.subscription_code IN
  Reply([t \in Tenants |->
           IF SubCodeMatches(pl[t], sub_code)
             THEN [pl[t] EXCEPT !.status = "CANCELLING", !.is_active = FALSE]
             ELSE pl[t]],
        invs, 200, "soft_deactivated")

\* event == "subscription.disable"
HandleDisable(pl, invs, data) ==
  LET sub_code == data.subscription_code IN
  Reply([t \in Tenants |->
           IF SubCodeMatches(pl[t], sub_code)
             THEN [pl[t] EXCEPT !.status = "CANCELLING"]
             ELSE pl[t]],
        invs, 200, "soft_deactivated")

\* the first update of event == "invoice.payment_succeeded"
RenewalUpdate(pl, data, at) ==
  LET sub_code == data.subscription.subscription_code IN
  IF sub_code # NullStr
    THEN [t \in Tenants |->
            IF SubCodeMatches(pl[t], sub_code)
              THEN [pl[t] EXCEPT !.is_active = TRUE,
                                 !.status = "ACTIVE",
                                 !.billing_cycle_start = at,
                                 !.cycle_reset_at = at + CycleDays]
              ELSE pl[t]]
    ELSE pl

\* a final update that leaves cycle_reset_at as it is
ActivationUpdate_KeepCycle(pl, tenant_id, email_token, next_cycle_date, at) ==
  [t \in Tenants |->
     IF pl[t].exists /\ t = tenant_id
       THEN [pl[t] EXCEPT !.is_active = TRUE,
                          !.status = "ACTIVE",
                          !.billing_cycle_start = at,
                          !.paystack_email_token = email_token]
       ELSE pl[t]]

\* the final update of the success path
ActivationUpdate(pl, tenant_id, email_token, next_cycle_date, at) ==
  [t \in Tenants |->
     IF pl[t].exists /\ t = tenant_id
       THEN [pl[t] EXCEPT !.is_active = TRUE,
                          !.status = "ACTIVE",
                          !.billing_cycle_start = at,
                          !.cycle_reset_at = next_cycle_date,
                          !.paystack_email_token = email_token]
       ELSE pl[t]]

\* the rejection of the earlier revision of the handler: HTTPException(400)
AmountMismatchReply_Raise(pl, invs) ==
  Reply(pl, invs, 400, "Payment amount mismatch")

\* return {"status": "error_amount_mismatch"} under status_code 200
AmountMismatchReply(pl, invs) ==
  Reply(pl, invs, 200, "error_amount_mismatch")

\* the comparison without the conversion
AmountInsufficient_SameUnit(paystack_amount_kobo, invoice_amount) ==
  paystack_amount_kobo < invoice_amount

\* the amount check of the initial charge: Decimal(kobo) / Decimal(100) < amount
AmountInsufficient(paystack_amount_kobo, invoice_amount) ==
  paystack_amount_kobo < invoice_amount * KoboPerUnit

\* a check that the invoice exists only
AlreadyProcessed_ExistsOnly(invs, found, invoice_id) == ~found

\* the idempotency check: not invoice or invoice.status == PAID
AlreadyProcessed(invs, found, invoice_id) ==
  ~found \/ invs[invoice_id].status = "PAID"

\* the value the final update stores as cancel token when the event has none:
\* the one read with the record
TokenToStore_KeepRead(email_token, plan_record) ==
  IF email_token # NullStr THEN email_token ELSE plan_record.paystack_email_token

\* the value the final update stores as cancel token: the event's, whatever
\* the record that was read holds
TokenToStore(email_token, plan_record) == email_token

\* event in ["invoice.payment_succeeded", "charge.success"], with the rows its
\* selects return (read_pl, read_invs) told apart from the rows its
\* statements write to (pl0, invs0)
HandleSuccessFrom(read_pl, read_invs, pl0, invs0, event, data, at) ==
  LET pl1 == IF event = "invoice.payment_succeeded" THEN RenewalUpdate(pl0, data, at) ELSE pl0
      reference == data.reference
      subscription_data == data.subscription
      sub_code == IF subscription_data.subscription_code # NullStr
                    THEN subscription_data.subscription_code
                    ELSE data.subscription_code
      matches == IF sub_code # NullStr THEN MatchingTenants(read_pl, sub_code) ELSE {}
      has_plan_record == matches # {}
      lookup == event = "charge.success" /\ reference.text # ""
      invoice_id == ParseUUID(reference)
      has_invoice == lookup /\ IsUUID(reference) /\ invoice_id \in DOMAIN read_invs
      error == Reply(pl0, invs0, 500, "error")
  IN
  IF Cardinality(matches) > 1 THEN error
  ELSE IF lookup /\ ~IsUUID(reference) THEN error
  ELSE IF lookup /\ AlreadyProcessed(read_invs, has_invoice, invoice_id)
    THEN Reply(pl0, invs0, 200, "skipped")
  ELSE IF lookup /\ data.amount = Null THEN error
  ELSE IF lookup /\ AmountInsufficient(data.amount, read_invs[invoice_id].amount)
    THEN AmountMismatchReply(pl0, invs0)
  ELSE
    LET invs1 == IF lookup
                   THEN MarkAllPaid(mark_invoice_paid(invs0, invoice_id),
                                    data.metadata.unpaid_invoice_ids)
                   ELSE invs0
        plan_tenant == CHOOSE t \in Tenants : has_plan_record => t \in matches
        invs2 == IF event = "invoice.payment_succeeded" /\ has_plan_record
                   THEN Append(invs1,
                               NewInvoice(plan_tenant,
                                          (IF data.amount = Null THEN 0 ELSE data.amount)
                                             \div KoboPerUnit,
                                          "PAID"))
                   ELSE invs1
    IN
    IF has_plan_record \/ has_invoice
      THEN
        LET tenant_id == IF has_plan_record THEN plan_tenant
                         ELSE read_invs[invoice_id].tenant_id
            next_payment_str == subscription_data.next_payment_date
        IN
        IF next_payment_str # NullStr /\ ~IsIsoDate(next_payment_str) THEN error
        ELSE
          LET next_cycle_date == IF next_payment_str # NullStr
                                   THEN ParseIsoDate(next_payment_str)
                                   ELSE at + CycleDays
          IN Reply(ActivationUpdate(pl1, tenant_id,
                                    TokenToStore(subscription_data.email_token,
                                                 read_pl[tenant_id]),
                                    next_cycle_date, at),
                   invs2, 200, "success")
      ELSE Reply(pl0, invs0, 200, "ignored_no_matching_plan")

\* the handler run without another request in between: its selects return the
\* rows its statements write to
HandleSuccess(pl0, invs0, event, data, at) ==
  HandleSuccessFrom(pl0, invs0, pl0, invs0, event, data, at)

\* a handler that refuses the events it does not know
IgnoreEvent_Reject(pl, invs) == Reply(pl, invs, 400, "unknown event")

\* the fall-through of the dispatch: return {"status": "ignored"}
IgnoreEvent(pl, invs) == Reply(pl, invs, 200, "ignored")

\* the handler: signature verification, then dispatch on the event name
WebhookOutcome(pl, invs, paystack_signature, payload, at) ==
  IF VerifySignature(paystack_signature, payload) # "ok"
    THEN Reply(pl, invs, 401, VerifySignature(paystack_signature, payload))
  ELSE IF payload.event = "subscription.disable"
    THEN HandleDisable(pl, invs, payload.data)
  ELSE IF payload.event \in {"invoice.payment_succeeded", "charge.success"}
    THEN HandleSuccess(pl, invs, payload.event, payload.data, at)
  ELSE IgnoreEvent(pl, invs)

paystack_billing_webhook(paystack_signature, payload) ==
  LET out == WebhookOutcome(plans, invoices, paystack_signature, payload, now) IN
  /\ Len(out.invoices) <= MaxInvoices
  /\ plans' = out.plans
  /\ invoices' = out.invoices
  /\ last' = Served("webhook", IF out.code = 401 THEN "none" ELSE payload.event,
                     out.code, out.status, "none")
  /\ UNCHANGED <<profiles, now, sweeper, deliveries, BOOKS>>

\* ------------------------------------------------------------------------
\* Requests the provider (or anyone reaching the endpoint) may send
\* ------------------------------------------------------------------------
Subscription(code, token, date) ==
  [subscription_code |-> code, email_token |-> token, next_payment_date |-> date,
   plan |-> [plan_code |-> NullStr]]

\* a subscription object that names the provider plan that was billed
BilledPlan(subscription, paystack_plan_id) ==
  [subscription EXCEPT !.plan.plan_code = paystack_plan_id]

NoSubscription == Subscription(NullStr, NullStr, NullStr)

Payload(event, reference, amount, top_code, subscription, unpaid) ==
  [event |-> event,
   data |-> [reference |-> reference, amount |-> amount,
             subscription_code |-> top_code, subscription |-> subscription,
             metadata |-> [unpaid_invoice_ids |-> unpaid]]]

SubscriptionObjects ==
  {NoSubscription, Subscription(NullStr, EventToken, NullStr),
   Subscription(NullStr, NullStr, BadDate),
   Subscription("SUB_A", NullStr, NullStr), Subscription("SUB_A", EventToken, ProviderDate),
   Subscription("SUB_B", NullStr, NullStr)}

References == {NoReference, BadReference} \cup {InvoiceRef(i) : i \in 1..MaxInvoices}

ChargeAmounts == {Null, 9999, 25000, 1000000, 2500000}

UnpaidLists == {<<>>, <<InvoiceRef(MaxInvoices)>>, <<BadReference, InvoiceRef(1)>>}

OtherEvents == {"invoice.payment_failed", "subscription.not_renewed"}

UnknownEvents == {"transfer.success"}

Payloads ==
  {Payload("subscription.disable", NoReference, Null, c, NoSubscription, <<>>) :
      c \in {NullStr} \cup SubCodes}
  \cup {Payload(e, NoReference, Null, "SUB_A", Subscription("SUB_A", NullStr, NullStr), <<>>) :
          e \in OtherEvents}
  \cup {Payload(e, NoReference, Null, NullStr, NoSubscription, <<>>) : e \in UnknownEvents}
  \cup {Payload("invoice.payment_succeeded", NoReference, 2500000, NullStr,
                 BilledPlan(Subscription("SUB_A", EventToken, ProviderDate),
                            PLAN_MAPPING["GROWTH"]), <<>>)}
  \cup {Payload("invoice.payment_succeeded", NoReference, a, NullStr, s, <<>>) :
          a \in {2500000}, s \in SubscriptionObjects}
  \cup {Payload("invoice.payment_succeeded", NoReference, 2500000, "SUB_A", NoSubscription, <<>>)}
  \cup {Payload("charge.success", r, a, NullStr, NoSubscription, <<>>) :
          r \in References, a \in ChargeAmounts}
  \cup {Payload("charge.success", r, 2500000, NullStr, s, <<>>) :
          r \in References \ {BadReference}, s \in SubscriptionObjects}
  \cup {Payload("charge.success", r, a, NullStr, NoSubscription, u) :
          r \in References \ {NoReference, BadReference}, a \in {1000000, 2500000},
          u \in UnpaidLists}

\* a request body whose bytes differ from the ones that were signed
Tampered(payload) ==
  [payload EXCEPT !.event = IF @ = "charge.success" THEN "subscription.disable"
                            ELSE "charge.success"]

Signatures(payload) ==
  {NoSignature, Hmac(PAYSTACK_SECRET_KEY, payload),
   Hmac(PAYSTACK_SECRET_KEY, Tampered(payload))}

\* the signatures requests arrive with: a request without a valid signature
\* ends the same way for every body, so a few bodies stand for all
Presented(payload) ==
  IF payload.event \in {"subscription.disable", "transfer.success"}
    THEN Signatures(payload)
    ELSE {Hmac(PAYSTACK_SECRET_KEY, payload)}

\* ------------------------------------------------------------------------
\* Interactive endpoints
\* ------------------------------------------------------------------------
\* MerchantProfileService.get_profile_by_tenant_id: the tenant's profile row
get_profile_by_tenant_id(tenant_id) == profiles[tenant_id]

\* a gate that only requires a profile
CurrencySupported_AnyLock(profile) == profile.exists

\* the negation of: not profile or profile.currency_lock != "NGN"
CurrencySupported(profile) ==
  profile.exists /\ profile.currency_lock = "NGN"

\* payload.plan_id as the request schema hands it to the endpoint: stripped
\* and lowercased by normalize_plan_id, uppercased by its later revision
CheckoutPlanIds == {"growth", "GROWTH", "basic"}

\* PLAN_MAPPING.get(plan_id): None for a key the mapping does not have
PlanMappingGet(plan_id) ==
  IF plan_id \in DOMAIN PLAN_MAPPING THEN PLAN_MAPPING[plan_id] ELSE NullStr

\* the elements of a set of row ids in ascending order
RECURSIVE Ascending(_)
Ascending(S) ==
  IF S = {} THEN <<>>
  ELSE LET least == CHOOSE i \in S : \A j \in S : i <= j IN
       <<least>> \o Ascending(S \ {least})

\* InvoiceService.get_unpaid_phone_invoices: the ids of the tenant's invoices
\* of another billable category that are not paid yet
get_unpaid_phone_invoices(invs, tenant_id) ==
  Ascending({i \in DOMAIN invs : /\ invs[i].tenant_id = tenant_id
                                 /\ invs[i].category = "PHONE_NUMBER"
                                 /\ invs[i].status = "PENDING"})

\* a call to the provider: the endpoint and what is passed to it
ProviderCall(name, subscription_code, plan_code, reference, unpaid_invoice_ids) ==
  [name |-> name, subscription_code |-> subscription_code, plan_code |-> plan_code,
   reference |-> reference, unpaid_invoice_ids |-> unpaid_invoice_ids]

NoCall == ProviderCall("none", NullStr, NullStr, NoReference, <<>>)

\* POST /billing/subscription/checkout
CheckoutOutcome(rec, profile, invs, t, plan_id, providerOk) ==
  IF ~CurrencySupported(profile)
    THEN [invoices |-> invs, code |-> 409, status |-> "currency",
          provider |-> "none", call |-> NoCall]
  ELSE IF ~rec.exists
    THEN [invoices |-> invs, code |-> 500, status |-> "error",
          provider |-> "none", call |-> NoCall]
  ELSE IF rec.paystack_subscription_code # NullStr
    THEN [invoices |-> invs,
          code |-> IF providerOk THEN 200 ELSE 500,
          status |-> IF providerOk THEN "success_url" ELSE "error",
          provider |-> "update_subscription",
          call |-> ProviderCall("update_subscription", rec.paystack_subscription_code,
                                PlanMappingGet(plan_id), NoReference, <<>>)]
  ELSE IF rec.price = Null
    THEN [invoices |-> invs, code |-> 500, status |-> "error",
          provider |-> "none", call |-> NoCall]
  ELSE [invoices |-> Append(invs, NewInvoice(t, rec.price, "PENDING")),
        code |-> IF providerOk THEN 200 ELSE 500,
        status |-> IF providerOk THEN "authorization_url" ELSE "error",
        provider |-> "initialize_subscription",
        call |-> ProviderCall("initialize_subscription", NullStr, rec.paystack_plan_id,
                              InvoiceRef(Len(invs) + 1),
                              get_unpaid_phone_invoices(invs, t))]

\* a checkout that notes the requested provider plan on the record before the
\* provider has answered
subscription_checkout_Optimistic(t, plan_id, providerOk) ==
  LET out == CheckoutOutcome(plans[t], get_profile_by_tenant_id(t), invoices, t,
                             plan_id, providerOk) IN
  /\ Len(out.invoices) <= MaxInvoices
  /\ invoices' = out.invoices
  /\ plans' = IF out.provider # "none"
                THEN [plans EXCEPT ![t].paystack_plan_id = PlanMappingGet(plan_id)]
                ELSE plans
  /\ last' = Served("subscription_checkout", "none", out.code, out.status, out.provider)
  /\ UNCHANGED <<profiles, now, sweeper, deliveries, BOOKS>>

subscription_checkout(t, plan_id, providerOk) ==
  LET out == CheckoutOutcome(plans[t], get_profile_by_tenant_id(t), invoices, t,
                             plan_id, providerOk) IN
  /\ Len(out.invoices) <= MaxInvoices
  /\ invoices' = out.invoices
  /\ last' = Served("subscription_checkout", "none", out.code, out.status, out.provider)
  /\ UNCHANGED <<plans, profiles, now, sweeper, deliveries, BOOKS>>

\* a cancellation that goes to the provider without a cancel token
CancelOutcome_NoTokenCheck(rec, providerOk) ==
  IF ~rec.exists \/ rec.paystack_subscription_code = NullStr
    THEN [code |-> 400, status |-> "no_subscription", provider |-> "none"]
  ELSE [code |-> IF providerOk THEN 200 ELSE 500,
        status |-> IF providerOk THEN "requested" ELSE "error",
        provider |-> "cancel_subscription"]

\* POST /billing/subscription/cancel
CancelOutcome(rec, providerOk) ==
  IF ~rec.exists \/ rec.paystack_subscription_code = NullStr
    THEN [code |-> 400, status |-> "no_subscription", provider |-> "none"]
  ELSE IF rec.paystack_email_token = NullStr
    THEN [code |-> 400, status |-> "token_missing", provider |-> "none"]
  ELSE [code |-> IF providerOk THEN 200 ELSE 500,
        status |-> IF providerOk THEN "requested" ELSE "error",
        provider |-> "cancel_subscription"]

cancel_subscription(t, providerOk) ==
  LET out == CancelOutcome(plans[t], providerOk) IN
  /\ last' = Served("cancel_subscription", "none", out.code, out.status, out.provider)
  /\ UNCHANGED <<plans, profiles, invoices, now, sweeper, deliveries, BOOKS>>

\* ------------------------------------------------------------------------
\* Cleanup Sweeper: the periodic rule, each run one set-based statement in a
\* transaction of its own
\* ------------------------------------------------------------------------
\* status == CANCELLING AND is_active == true AND cycle_reset_at <= now
Due(rec, at) ==
  /\ rec.exists /\ rec.status = "CANCELLING" /\ rec.is_active
  /\ rec.cycle_reset_at # Null /\ rec.cycle_reset_at <= at

\* a rule that does not look at is_active
SweepUpdate_AnyCancelling(pl, at) ==
  [t \in Tenants |->
     IF pl[t].exists /\ pl[t].status = "CANCELLING"
       THEN [pl[t] EXCEPT !.is_active = FALSE, !.status = "EXPIRED"]
       ELSE pl[t]]

\* set is_active = false, status = EXPIRED on the selected rows
SweepUpdate(pl, at) ==
  [t \in Tenants |->
     IF Due(pl[t], at)
       THEN [pl[t] EXCEPT !.is_active = FALSE, !.status = "EXPIRED"]
       ELSE pl[t]]

\* a run is scheduled
StartSweep(r) ==
  /\ sweeper[r] = "idle"
  /\ sweeper' = [sweeper EXCEPT ![r] = "running"]
  /\ UNCHANGED <<plans, profiles, invoices, now, last, deliveries, BOOKS>>

\* the run's statement executes and commits
SweepStatement(r) ==
  /\ sweeper[r] = "running"
  /\ plans' = SweepUpdate(plans, now)
  /\ sweeper' = [sweeper EXCEPT ![r] = "idle"]
  /\ UNCHANGED <<profiles, invoices, now, last, deliveries, BOOKS>>

\* time passes, a cadence of the rule at a time
Tick ==
  /\ now + SweepCadence <= MaxDay
  /\ now' = now + SweepCadence
  /\ UNCHANGED <<plans, profiles, invoices, last, sweeper, deliveries, BOOKS>>

\* ------------------------------------------------------------------------
\* Requests to the webhook endpoint in progress at once: each runs in a
\* session of its own, its selects return committed rows, its statements take
\* effect at its commit (db.commit() is the last statement before the reply)
\* ------------------------------------------------------------------------
\* the rows a processing that fails before its commit leaves behind, written
\* being the rows as its statements had them; this one keeps the invoices
RollBackUnit_InvoiceKept(pl, invs, written) ==
  [plans |-> pl, invoices |-> written.invoices]

\* no statement of the success path commits ahead of db.commit(): a failure
\* before it leaves the committed rows
RollBackUnit(pl, invs, written) == [plans |-> pl, invoices |-> invs]

\* signature verification and request.json() of an authenticated request; a
\* request whose processing failed is sent again by the provider
Receive(d, payload) ==
  /\ deliveries[d].pc \in {"idle", "failed"}
  /\ deliveries[d].pc = "failed" => payload = deliveries[d].payload
  /\ VerifySignature(Hmac(PAYSTACK_SECRET_KEY, payload), payload) = "ok"
  /\ deliveries' = [deliveries EXCEPT ![d] =
                      Delivery("received", payload, plans, invoices,
                               deliveries[d].pc = "failed", "none")]
  /\ UNCHANGED <<plans, profiles, invoices, now, last, sweeper, BOOKS>>

\* the selects of the request: the rows they return are the committed ones
Select(d) ==
  /\ deliveries[d].pc = "received"
  /\ deliveries' = [deliveries EXCEPT ![d].pc = "selected",
                                      ![d].read_plans = plans,
                                      ![d].read_invoices = invoices]
  /\ UNCHANGED <<plans, profiles, invoices, now, last, sweeper, BOOKS>>

\* what the request does with the rows it read, applied to the committed rows
Processed(d, pl, invs, at) ==
  LET payload == deliveries[d].payload IN
  IF payload.event = "subscription.disable"
    THEN HandleDisable(pl, invs, payload.data)
  ELSE IF payload.event \in {"invoice.payment_succeeded", "charge.success"}
    THEN HandleSuccessFrom(deliveries[d].read_plans, deliveries[d].read_invoices,
                           pl, invs, payload.event, payload.data, at)
  ELSE IgnoreEvent(pl, invs)

\* the statements, db.commit() and the reply
Complete(d) ==
  LET out == Processed(d, plans, invoices, now) IN
  /\ deliveries[d].pc = "selected"
  /\ Len(out.invoices) <= MaxInvoices
  /\ plans' = out.plans
  /\ invoices' = out.invoices
  /\ last' = Served("webhook", deliveries[d].payload.event, out.code, out.status, "none")
  /\ deliveries' = [deliveries EXCEPT ![d].pc = "done", ![d].outcome = out.status]
  /\ UNCHANGED <<profiles, now, sweeper, BOOKS>>

\* an exception or a persistence failure after the statements, before or in
\* db.commit()
Fail(d) ==
  LET written == Processed(d, plans, invoices, now)
      kept == RollBackUnit(plans, invoices, written) IN
  /\ deliveries[d].pc = "selected"
  /\ written.status \in {"success", "soft_deactivated"}
  /\ Len(written.invoices) <= MaxInvoices
  /\ plans' = kept.plans
  /\ invoices' = kept.invoices
  /\ last' = Served("webhook", deliveries[d].payload.event, 500, "error", "none")
  /\ deliveries' = [deliveries EXCEPT ![d].pc = "failed", ![d].outcome = "failed"]
  /\ UNCHANGED <<profiles, now, sweeper, BOOKS>>

\* both requests were answered: the next two may arrive
NextPair ==
  /\ \A d \in Slots : deliveries[d].pc = "done"
  /\ deliveries' = NoDelivery
  /\ UNCHANGED <<plans, profiles, invoices, now, last, sweeper, BOOKS>>

\* ------------------------------------------------------------------------
\* The in-memory book store (books2.py)
\* ------------------------------------------------------------------------
Book(id, title, author, description, rating, published_date) ==
  [id |-> id, title |-> title, author |-> author, description |-> description,
   rating |-> rating, published_date |-> published_date]

\* the module-level list as the interpreter builds it
InitialBooks ==
  << Book(1, "1984", "George Orwell", "Dystopian novel", 5, 1949),
     Book(2, "To Kill a Mockingbird", "HarperLee", "Classic novel", 5, 1960),
     Book(3, "The Great Gatsby", "F. Scott Fitzgerald", "Classic novel", 4, 1925),
     Book(4, "The Catcher in the Rye", "J.D. Salinger", "Coming-of-age novel", 4, 1951),
     Book(5, "The Hobbit", "J.R.R. Tolkien", "Fantasy novel", 5, 1937),
     Book(6, "The Da Vinci Code", "Dan Brown", "Mystery thriller", 4, 2003) >>

\* what a handler returns when it falls off its loop: None
NoBook == Book(Null, "", "", "", Null, Null)

\* a validated request body; id is optional and has no constraint
BookRequest(id) ==
  Book(id, "The Alchemist", "Michael Blossom",
       "A philosophical book about a young shepherd's journey to find treasure and discover his personal legend.",
       5, 1988)

BookRequests == {BookRequest(id) : id \in {Null, 0} \cup (1..MaxBookId)}

\* the book_id path parameter: Path(gt=0)
BookIds == 1..MaxBookId

\* an id assignment that honours the id the client sent
find_book_id_KeepClientId(books, book) ==
  IF book.id # Null THEN book
  ELSE IF Len(books) > 0 THEN [book EXCEPT !.id = books[Len(books)].id + 1]
  ELSE [book EXCEPT !.id = 1]

\* find_book_id: the last book's id plus one, 1 for the empty list
find_book_id(books, book) ==
  IF Len(books) > 0 THEN [book EXCEPT !.id = books[Len(books)].id + 1]
  ELSE [book EXCEPT !.id = 1]

\* the request a book handler served: operation, body (or the path
\* parameter as its id), HTTP status, returned book
ServedBook(op, request, code, response) ==
  [op |-> op, request |-> request, code |-> code, response |-> response]

\* POST /books
create_book(book) ==
  LET new_book == find_book_id(BOOKS, book) IN
  /\ new_book.id <= MaxBookId
  /\ Len(BOOKS) < MaxBookId
  /\ BOOKS' = Append(BOOKS, new_book)
  /\ last' = ServedBook("create_book", book, 201, new_book)
  /\ UNCHANGED <<plans, profiles, invoices, now, sweeper, deliveries>>

\* the first index whose book has that id, 0 when the loop finds none
FirstIndex(books, id) ==
  IF \E i \in 1..Len(books) : books[i].id = id
    THEN CHOOSE i \in 1..Len(books) :
           /\ books[i].id = id
           /\ \A j \in 1..(i - 1) : books[j].id # id
    ELSE 0

\* PUT /books/update_book
update_book(book) ==
  LET i == FirstIndex(BOOKS, book.id) IN
  /\ BOOKS' = IF i # 0 THEN [BOOKS EXCEPT ![i] = book] ELSE BOOKS
  /\ last' = ServedBook("update_book", book, 204, IF i # 0 THEN book ELSE NoBook)
  /\ UNCHANGED <<plans, profiles, invoices, now, sweeper, deliveries>>

\* DELETE /books/{book_id}
delete_book(book_id) ==
  LET i == FirstIndex(BOOKS, book_id) IN
  /\ BOOKS' = IF i # 0 THEN SubSeq(BOOKS, 1, i - 1) \o SubSeq(BOOKS, i + 1, Len(BOOKS))
                        ELSE BOOKS
  /\ last' = ServedBook("delete_book", BookRequest(book_id), 204,
                         IF i # 0 THEN BOOKS[i] ELSE NoBook)
  /\ UNCHANGED <<plans, profiles, invoices, now, sweeper, deliveries>>

\* ------------------------------------------------------------------------
\* Properties
\* ------------------------------------------------------------------------
Signed(payload) == Hmac(PAYSTACK_SECRET_KEY, payload)

\* outcome of an authenticated delivery of payload at time at
Delivered(pl, invs, payload, at) == WebhookOutcome(pl, invs, Signed(payload), payload, at)

ChargePayloads == {p \in Payloads : p.event = "charge.success"}

\* the invoice a charge.success payload references, 0 if none
ReferencedInvoice(invs, payload) ==
  IF IsUUID(payload.data.reference) /\ ParseUUID(payload.data.reference) \in DOMAIN invs
    THEN ParseUUID(payload.data.reference)
    ELSE 0

PaymentEvents == {"charge.success", "invoice.payment_succeeded"}

\* C1: a webhook request whose signature header is missing or is not the HMAC
\* of the raw body under the shared secret is answered 401 and changes no
\* billing record and no invoice, whatever the payload is.
C1_Rejects ==
  \A payload \in Payloads : \A sig \in Signatures(payload) :
    sig # Signed(payload) =>
      LET out == WebhookOutcome(plans, invoices, sig, payload, now) IN
      out.code = 401 /\ out.plans = plans /\ out.invoices = invoices

C1_SignatureRejection ==
  /\ []C1_Rejects
  /\ [][(last'.op = "webhook" /\ last'.code = 401) => UNCHANGED <<plans, invoices>>]_vars

\* a request was rejected with 401 while a PENDING invoice it could have
\* settled exists
C1_Witness ==
  /\ last.op = "webhook" /\ last.code = 401
  /\ \E i \in DOMAIN invoices : invoices[i].status = "PENDING"

\* C2: delivering the same authenticated charge.success event a second time,
\* at the same or a later time, after the first delivery marked the referenced
\* invoice PAID, is skipped: the invoice stays PAID and every billing record
\* (cycle_reset_at and quota_messages included) equals its value after the
\* first delivery.
C2_ChargeIdempotent ==
  \A payload \in ChargePayloads :
    LET i == ReferencedInvoice(invoices, payload)
        first == Delivered(plans, invoices, payload, now)
    IN
    (i # 0 /\ invoices[i].status = "PENDING" /\ first.status = "success") =>
      /\ first.invoices[i].status = "PAID"
      /\ \A later \in {now, now + 1, now + CycleDays} :
           LET second == Delivered(first.plans, first.invoices, payload, later) IN
           /\ second.code = 200 /\ second.status = "skipped"
           /\ second.invoices = first.invoices
           /\ second.plans = first.plans

\* a charge.success was skipped although every invoice it can reference exists
\* and is PAID, after a tenant was activated
C2_Witness ==
  /\ last.op = "webhook" /\ last.event = "charge.success" /\ last.status = "skipped"
  /\ Len(invoices) = MaxInvoices
  /\ \A i \in DOMAIN invoices : invoices[i].status = "PAID"
  /\ \E t \in Tenants : plans[t].is_active /\ plans[t].cycle_reset_at # Null

\* C3: a successful apply_plan_intent leaves is_active false and
\* cycle_reset_at null, whatever the record held before; and is_active turns
\* true, or cycle_reset_at non-null, only in a step that processes a
\* successful payment webhook event.
C3_IntentPost ==
  \A t \in Tenants, plan \in PlanInputs, interval \in IntervalInputs :
    LET out == PlanIntentOutcome(plans[t], plan, interval, now, TRUE) IN
    out.error = "none" => (~out.rec.is_active /\ out.rec.cycle_reset_at = Null)

C3_OnlyPayment ==
  \A t \in Tenants :
    ((~plans[t].is_active /\ plans'[t].is_active)
       \/ (plans[t].cycle_reset_at = Null /\ plans'[t].cycle_reset_at # Null))
    => (last'.op = "webhook" /\ last'.event \in PaymentEvents /\ last'.status = "success")

C3_EntitlementGating ==
  /\ []C3_IntentPost
  /\ [][C3_OnlyPayment]_vars
  /\ [][(last'.op = "apply_plan_intent" /\ last'.code = 200) =>
          \A t \in Tenants : plans'[t] # plans[t] =>
                               (~plans'[t].is_active /\ plans'[t].cycle_reset_at = Null)]_vars

\* a plan intent was applied to a tenant that a payment event had activated
C3_Witness ==
  /\ last.op = "apply_plan_intent" /\ last.code = 200
  /\ \E t \in Tenants :
       /\ plans[t].status \in {"ACTIVE", "CANCELLING"}
       /\ ~plans[t].is_active /\ plans[t].cycle_reset_at = Null
       /\ plans[t].paystack_plan_id # NullStr

\* C4: an authenticated charge.success that references a PENDING invoice and
\* reports an amount lower than the invoice's amount is answered 200 and
\* leaves the invoice PENDING and every billing record unchanged.
C4_AmountMismatch ==
  \A payload \in ChargePayloads :
    LET i == ReferencedInvoice(invoices, payload)
        out == Delivered(plans, invoices, payload, now)
    IN
    (i # 0 /\ invoices[i].status = "PENDING"
       /\ payload.data.amount # Null /\ payload.data.amount < invoices[i].amount) =>
      /\ out.code = 200 /\ out.status = "error_amount_mismatch"
      /\ out.invoices = invoices /\ out.invoices[i].status = "PENDING"
      /\ out.plans = plans

\* an underpaid charge was acknowledged and the invoice is still PENDING
C4_Witness ==
  /\ last.op = "webhook" /\ last.code = 200 /\ last.status = "error_amount_mismatch"
  /\ \E i \in DOMAIN invoices : invoices[i].status = "PENDING" /\ invoices[i].amount = 10000

\* an event that carries a reference and an amount only
BareCharge(payload) ==
  /\ payload.data.subscription = NoSubscription
  /\ payload.data.subscription_code = NullStr
  /\ payload.data.metadata.unpaid_invoice_ids = <<>>

\* the post-state of the end-to-end scenario for invoice i
Granted(out, invs, i, at) ==
  LET owner == invs[i].tenant_id IN
  /\ out.code = 200 /\ out.status = "success"
  /\ out.invoices[i].status = "PAID"
  /\ out.plans[owner].exists =>
       /\ out.plans[owner].is_active
       /\ out.plans[owner].status = "ACTIVE"
       /\ out.plans[owner].cycle_reset_at = at + CycleDays

\* C5 as stated: an authenticated charge.success that references a PENDING
\* invoice and whose amount, read in the unit of the invoice amount, meets or
\* exceeds it (25000 for an invoice of 25000) makes the invoice PAID and the
\* tenant active.
C5_SameUnitAccepted ==
  \A payload \in ChargePayloads :
    LET i == ReferencedInvoice(invoices, payload) IN
    (i # 0 /\ invoices[i].status = "PENDING" /\ BareCharge(payload)
       /\ payload.data.amount # Null /\ payload.data.amount >= invoices[i].amount) =>
      Granted(Delivered(plans, invoices, payload, now), invoices, i, now)

\* C5: the event amount is in kobo and the invoice amount in naira: a
\* charge.success that references a PENDING invoice is rejected as a mismatch
\* exactly when amount < 100 * invoice amount, and an event carrying only a
\* reference and an amount of at least 100 * invoice amount (2500000 for an
\* invoice of 25000) makes the invoice PAID and its tenant active, ACTIVE, with
\* cycle_reset_at thirty days ahead.
C5_KoboAccepted ==
  \A payload \in ChargePayloads :
    LET i == ReferencedInvoice(invoices, payload)
        out == Delivered(plans, invoices, payload, now)
    IN
    (i # 0 /\ invoices[i].status = "PENDING" /\ payload.data.amount # Null) =>
      /\ out.status = "error_amount_mismatch" <=> payload.data.amount < 100 * invoices[i].amount
      /\ (BareCharge(payload) /\ payload.data.amount >= 100 * invoices[i].amount) =>
           Granted(out, invoices, i, now)

\* the scenario's end: GROWTH chosen, the invoice of 25000 PAID, the tenant
\* active
C5_Witness ==
  /\ last.op = "webhook" /\ last.event = "charge.success" /\ last.status = "success"
  /\ \E i \in DOMAIN invoices :
       /\ invoices[i].status = "PAID" /\ invoices[i].amount = 25000
       /\ LET rec == plans[invoices[i].tenant_id] IN
          /\ rec.plan_code = "GROWTH" /\ rec.quota_messages = 1500
          /\ rec.is_active /\ rec.status = "ACTIVE" /\ rec.cycle_reset_at = now + CycleDays

\* C6: an authenticated subscription.disable sets status CANCELLING on every
\* record whose stored subscription code equals the event's, from any status,
\* and leaves every other field of it (is_active, cycle_reset_at, plan_code,
\* quota_messages, the provider identifiers) and every invoice unchanged.
C6_SoftCancel ==
  \A payload \in Payloads :
    payload.event = "subscription.disable" =>
      LET out == Delivered(plans, invoices, payload, now) IN
      /\ out.code = 200
      /\ out.invoices = invoices
      /\ \A t \in Tenants :
           SubCodeMatches(plans[t], payload.data.subscription_code) =>
             out.plans[t] = [plans[t] EXCEPT !.status = "CANCELLING"]

\* a paid-up tenant was cancelled and kept its access and its identifiers
C6_Witness ==
  /\ last.op = "webhook" /\ last.event = "subscription.disable" /\ last.code = 200
  /\ \E t \in Tenants :
       /\ plans[t].status = "CANCELLING" /\ plans[t].is_active
       /\ plans[t].cycle_reset_at # Null
       /\ plans[t].paystack_subscription_code = "SUB_A"
       /\ plans[t].paystack_email_token # NullStr

Passed(rec) == rec.cycle_reset_at # Null /\ rec.cycle_reset_at <= now

\* C7 as stated: a CANCELLING record whose cycle_reset_at has not passed has
\* is_active true, and is_active of such a record does not turn false before
\* cycle_reset_at has passed.
C7_GraceKeepsAccess ==
  /\ [](\A t \in Tenants :
          (plans[t].exists /\ plans[t].status = "CANCELLING" /\ ~Passed(plans[t]))
            => plans[t].is_active)
  /\ [][\A t \in Tenants :
          (plans[t].exists /\ plans[t].status = "CANCELLING" /\ plans[t].is_active
             /\ ~Passed(plans[t])) => plans'[t].is_active]_vars

\* C8: checkout for a tenant without a profile locked to NGN is answered 409,
\* creates no invoice, makes no provider call and changes no billing record.
C8_Gate ==
  \A t \in Tenants, plan_id \in CheckoutPlanIds, providerOk \in BOOLEAN :
    (~profiles[t].exists \/ profiles[t].currency_lock # "NGN") =>
      LET out == CheckoutOutcome(plans[t], profiles[t], invoices, t, plan_id, providerOk) IN
      out.code = 409 /\ out.invoices = invoices /\ out.provider = "none"

C9_Always200 ==
  \A payload \in Payloads : Delivered(plans, invoices, payload, now).code = 200

\* C10 as stated: an invoice turns PAID only by an authenticated webhook event
\* whose amount covers that invoice's amount, be it the referenced invoice or
\* one listed in unpaid_invoice_ids, and a PAID invoice stays PAID.
C10_Covered ==
  \A payload \in Payloads :
    LET out == Delivered(plans, invoices, payload, now) IN
    \A i \in DOMAIN invoices :
      (invoices[i].status = "PENDING" /\ out.invoices[i].status = "PAID") =>
        /\ payload.data.amount # Null
        /\ payload.data.amount >= KoboPerUnit * invoices[i].amount

C10_PaidOnce ==
  /\ []C10_Covered
  /\ [][\A i \in DOMAIN invoices :
          /\ invoices[i].status = "PAID" => invoices'[i].status = "PAID"
          /\ (invoices[i].status = "PENDING" /\ invoices'[i].status = "PAID") =>
               (last'.op = "webhook" /\ last'.code = 200)]_vars

\* the records an event for subscription code sub_code is about
Subscribers(sub_code) == {t \in Tenants : SubCodeMatches(plans[t], sub_code)}

\* C11 as stated: an authenticated invoice.payment_failed leaves every record
\* whose stored subscription code matches with status PAST_DUE and is_active
\* false.
C11_PaymentFailed ==
  \A payload \in Payloads :
    payload.event = "invoice.payment_failed" =>
      LET out == Delivered(plans, invoices, payload, now) IN
      \A t \in Subscribers(payload.data.subscription.subscription_code) :
        out.plans[t].status = "PAST_DUE" /\ ~out.plans[t].is_active

\* C12 as stated: an authenticated subscription.not_renewed leaves every
\* record whose stored subscription code matches with status EXPIRED and
\* is_active false.
C12_NotRenewed ==
  \A payload \in Payloads :
    payload.event = "subscription.not_renewed" =>
      LET out == Delivered(plans, invoices, payload, now) IN
      \A t \in Subscribers(payload.data.subscription_code) :
        out.plans[t].status = "EXPIRED" /\ ~out.plans[t].is_active

\* the rows the sweeper's rule selects now
DueNow(t) == Due(plans[t], now)

Expired(t) == plans[t].status = "EXPIRED" /\ ~plans[t].is_active

\* a step in which a run's statement executes
SweepStep == \E r \in Runs : sweeper[r] = "running" /\ sweeper'[r] = "idle"

\* C13 as stated, its last part: a record that is CANCELLING with is_active
\* true and whose cycle_reset_at has passed is eventually EXPIRED with
\* is_active false.
C13_EventuallyExpired == \A t \in Tenants : DueNow(t) ~> Expired(t)

\* C13: a run of the sweeper sets is_active false and status EXPIRED on
\* exactly the records that are CANCELLING, active and past cycle_reset_at,
\* and changes nothing else; a second statement right after it, be it a
\* re-run or an overlapping run, changes no row; and a record the rule selects
\* is eventually EXPIRED and inactive, unless a payment event re-activates it
\* or a plan intent clears is_active before the statement runs.
C13_RerunNoOp ==
  LET once == SweepUpdate(plans, now) IN
  /\ SweepUpdate(once, now) = once
  /\ \A t \in Tenants : ~Due(once[t], now)

C13_RuleExact ==
  SweepStep =>
    /\ \A t \in Tenants :
         plans'[t] = IF plans[t].exists /\ plans[t].status = "CANCELLING"
                        /\ plans[t].is_active /\ plans[t].cycle_reset_at # Null
                        /\ plans[t].cycle_reset_at <= now
                       THEN [plans[t] EXCEPT !.is_active = FALSE, !.status = "EXPIRED"]
                       ELSE plans[t]
    /\ UNCHANGED <<invoices, profiles>>

C13_Sweeper ==
  /\ []C13_RerunNoOp
  /\ [][C13_RuleExact]_vars
  /\ \A t \in Tenants :
       DueNow(t) ~> (Expired(t) \/ plans[t].status = "ACTIVE" \/ ~plans[t].is_active)

\* one record was expired by a run while the other tenant's record, active
\* and not cancelled, was left alone, and a second run is under way
C13_Witness ==
  /\ \E t \in Tenants : Expired(t) /\ plans[t].cycle_reset_at # Null
                          /\ plans[t].cycle_reset_at <= now
  /\ \E t \in Tenants : plans[t].status = "ACTIVE" /\ plans[t].is_active
  /\ \E r \in Runs : sweeper[r] = "running"

\* the internal plan a provider plan id stands for
ReversePlan(paystack_plan_id) ==
  CHOOSE p \in DOMAIN PLAN_MAPPING : PLAN_MAPPING[p] = paystack_plan_id

\* C14 as stated: an authenticated invoice.payment_succeeded that names a
\* provider plan whose internal plan differs from the record's plan_code
\* leaves the record with that plan's code and that plan's quota.
C14_PlanDrift ==
  \A payload \in Payloads :
    (payload.event = "invoice.payment_succeeded"
       /\ payload.data.subscription.plan.plan_code # NullStr) =>
      LET billed == ReversePlan(payload.data.subscription.plan.plan_code)
          out == Delivered(plans, invoices, payload, now)
      IN
      \A t \in Subscribers(payload.data.subscription.subscription_code) :
        (billed # plans[t].plan_code /\ plans[t].currency_lock # NullStr) =>
          /\ out.plans[t].plan_code = billed
          /\ out.plans[t].quota_messages =
               _PLAN_CATALOGUE[billed]["monthly"][plans[t].currency_lock].quota_messages

\* C15: an authenticated event whose name the specification's dispatch table
\* does not list changes no billing record and no invoice and is
\* acknowledged with 200.
C15_NoOp ==
  \A payload \in Payloads :
    payload.event \in UnknownEvents =>
      LET out == Delivered(plans, invoices, payload, now) IN
      out.code = 200 /\ out.plans = plans /\ out.invoices = invoices

C15_UnknownEvent ==
  /\ []C15_NoOp
  /\ [][(last'.op = "webhook" /\ last'.event \in UnknownEvents) =>
          (last'.code = 200 /\ UNCHANGED <<plans, invoices>>)]_vars

\* an unlisted event was acknowledged while an activated tenant and a PENDING
\* invoice exist
C15_Witness ==
  /\ last.op = "webhook" /\ last.event \in UnknownEvents /\ last.code = 200
  /\ \E t \in Tenants : plans[t].is_active
  /\ \E i \in DOMAIN invoices : invoices[i].status = "PENDING"

ResolveErrors ==
  {"PlanNotFoundError", "PlanIntervalUnsupportedError", "PlanCurrencyMismatchError"}

\* C16: apply_plan_intent for a tenant without a billing record or without a
\* currency lock fails with PlanPrerequisiteError, and a failure of plan
\* resolution or a missing provider mapping fails with its own error; in each
\* case every field of the record is as before and no audit entry is written.
C16_Unchanged ==
  \A t \in Tenants, plan \in PlanInputs, interval \in IntervalInputs, auditOk \in BOOLEAN :
    LET out == PlanIntentOutcome(plans[t], plan, interval, now, auditOk) IN
    /\ (~plans[t].exists \/ plans[t].currency_lock = NullStr) =>
         (out.error = "PlanPrerequisiteError" /\ out.rec = plans[t] /\ ~out.audit)
    /\ (out.error \in ResolveErrors) => (out.rec = plans[t] /\ ~out.audit)
    /\ (plans[t].exists /\ plans[t].currency_lock # NullStr
          /\ (~_resolve_plan(plan, interval, plans[t].currency_lock).ok
                \/ plan \notin DOMAIN PLAN_MAPPING)) => out.error \in ResolveErrors

C16_IntentFailure ==
  /\ []C16_Unchanged
  /\ [][(last'.op = "apply_plan_intent" /\ last'.code \in {400, 409}) =>
          UNCHANGED <<plans, invoices>>]_vars

\* an intent that names a plan without a provider mapping was refused for a
\* tenant that stays active
C16_Witness ==
  /\ last.op = "apply_plan_intent" /\ last.status = "PlanNotFoundError" /\ last.code = 400
  /\ plans["t1"].is_active /\ plans["t1"].cycle_reset_at # Null

\* C17: when the audit write or the commit of apply_plan_intent fails, the
\* exception is re-raised and the record is as it was before the call.
C17_RolledBack ==
  \A t \in Tenants, plan \in PlanInputs, interval \in IntervalInputs :
    LET ok == PlanIntentOutcome(plans[t], plan, interval, now, TRUE)
        failed == PlanIntentOutcome(plans[t], plan, interval, now, FALSE)
    IN
    ok.error = "none" =>
      (failed.error = "PersistenceError" /\ failed.rec = plans[t] /\ ~failed.audit)

C17_AuditFailure ==
  /\ []C17_RolledBack
  /\ [][(last'.op = "apply_plan_intent" /\ last'.status = "PersistenceError") =>
          (last'.code = 500 /\ UNCHANGED <<plans, invoices>>)]_vars

\* the audit write failed for an intent of an active tenant, which stays
\* active on its plan
C17_Witness ==
  /\ last.op = "apply_plan_intent" /\ last.status = "PersistenceError"
  /\ plans["t1"].is_active /\ plans["t1"].cycle_reset_at # Null

\* the call recorded in last, with its arguments normalised
Resolved ==
  [plan_key |-> Upper(last.plan), interval_key |-> Lower(last.interval),
   currency_key |-> Upper(last.currency), result |-> last.result]

\* the catalogue's entry is returned
ReturnsEntry(c) ==
  LET entry == _PLAN_CATALOGUE[c.plan_key][c.interval_key][c.currency_key] IN
  /\ c.result.ok /\ c.result.error = "none"
  /\ c.result.plan_code = c.plan_key /\ c.result.interval = c.interval_key
  /\ c.result.currency = c.currency_key
  /\ c.result.quota_messages = entry.quota_messages /\ c.result.price = entry.price

\* C18 as stated: PlanNotFound whenever the plan is unknown, IntervalUnsupported
\* whenever the plan does not offer the interval, CurrencyMismatch whenever
\* the plan has no entry for the currency, otherwise the catalogue's entry.
C18_PlanFirst ==
  last.op = "_resolve_plan" =>
    LET c == Resolved IN
    IF c.plan_key \notin DOMAIN _PLAN_CATALOGUE
      THEN c.result.error = "PlanNotFoundError"
    ELSE IF c.interval_key \notin DOMAIN _PLAN_CATALOGUE[c.plan_key]
      THEN c.result.error = "PlanIntervalUnsupportedError"
    ELSE IF c.currency_key \notin DOMAIN _PLAN_CATALOGUE[c.plan_key][c.interval_key]
      THEN c.result.error = "PlanCurrencyMismatchError"
    ELSE ReturnsEntry(c)

\* C18: _resolve_plan fails with PlanNotFound when the plan is empty after
\* strip; else with IntervalUnsupported when the interval, stripped and
\* lower-cased, is not "monthly", whether or not the plan is known; else with
\* PlanNotFound when the plan, stripped and upper-cased, is not in the
\* catalogue; else with CurrencyMismatch when the plan has no entry for the
\* upper-cased currency; otherwise it returns the catalogue's quota and price.
\* It changes no record.
C18_ResolveOrder ==
  last.op = "_resolve_plan" =>
    LET c == Resolved IN
    IF c.plan_key = ""
      THEN c.result.error = "PlanNotFoundError"
    ELSE IF c.interval_key # "monthly"
      THEN c.result.error = "PlanIntervalUnsupportedError"
    ELSE IF c.plan_key \notin DOMAIN _PLAN_CATALOGUE
      THEN c.result.error = "PlanNotFoundError"
    ELSE IF c.currency_key \notin DOMAIN _PLAN_CATALOGUE[c.plan_key][c.interval_key]
      THEN c.result.error = "PlanCurrencyMismatchError"
    ELSE ReturnsEntry(c)

C18_Resolve ==
  /\ []C18_ResolveOrder
  /\ [][last'.op = "_resolve_plan" => UNCHANGED <<plans, profiles, invoices>>]_vars

\* the lookup was called with an unknown plan and an unsupported interval
C18_Witness ==
  /\ last.op = "_resolve_plan"
  /\ Upper(last.plan) # "" /\ Upper(last.plan) \notin DOMAIN _PLAN_CATALOGUE
  /\ Lower(last.interval) # "monthly"
  /\ last.result.error = "PlanIntervalUnsupportedError"

\* C19 as stated: checkout for a tenant that has a stored subscription id asks
\* the provider for a plan change to the target plan's provider id and creates
\* no invoice and no payment session; for a tenant without one it creates one
\* PENDING invoice for the plan's price and asks for a checkout session whose
\* reference is that invoice's id and whose metadata lists the tenant's unpaid
\* invoice ids.
C19_Checkout ==
  \A t \in Tenants, plan_id \in CheckoutPlanIds, providerOk \in BOOLEAN :
    (CurrencySupported(profiles[t]) /\ plans[t].exists) =>
      LET out == CheckoutOutcome(plans[t], profiles[t], invoices, t, plan_id, providerOk) IN
      IF plans[t].paystack_subscription_code # NullStr
        THEN /\ out.call.name = "update_subscription"
             /\ out.call.plan_code \in {PLAN_MAPPING[p] : p \in DOMAIN PLAN_MAPPING}
             /\ Upper(plan_id) \in DOMAIN PLAN_MAPPING =>
                  out.call.plan_code = PLAN_MAPPING[Upper(plan_id)]
             /\ out.invoices = invoices
        ELSE plans[t].price # Null =>
             /\ Len(out.invoices) = Len(invoices) + 1
             /\ SubSeq(out.invoices, 1, Len(invoices)) = invoices
             /\ out.invoices[Len(out.invoices)].status = "PENDING"
             /\ out.invoices[Len(out.invoices)].amount = plans[t].price
             /\ out.invoices[Len(out.invoices)].tenant_id = t
             /\ out.call.name = "initialize_subscription"
             /\ out.call.reference = InvoiceRef(Len(out.invoices))
             /\ out.call.unpaid_invoice_ids = get_unpaid_phone_invoices(invoices, t)

\* C20: cancel_subscription answers 400 without calling the provider when the
\* tenant has no stored subscription id or no stored cancel token, answers 500
\* when the provider call fails, and never changes a tenant billing record.
C20_Answers ==
  \A t \in Tenants, providerOk \in BOOLEAN :
    LET rec == plans[t]
        out == CancelOutcome(rec, providerOk)
        stored == /\ rec.exists
                  /\ rec.paystack_subscription_code # NullStr
                  /\ rec.paystack_email_token # NullStr IN
    /\ ~stored => (out.code = 400 /\ out.provider = "none")
    /\ (stored /\ ~providerOk) => (out.code = 500 /\ out.provider = "cancel_subscription")

C20_Cancel ==
  /\ []C20_Answers
  /\ [][last'.op = "cancel_subscription" =>
          (/\ UNCHANGED <<plans, profiles, invoices>>
           /\ \E t \in Tenants, providerOk \in BOOLEAN :
                LET out == CancelOutcome(plans[t], providerOk) IN
                /\ last'.code = out.code
                /\ last'.provider = out.provider)]_vars

\* a cancellation was refused for a tenant whose subscription is stored
\* without a cancel token
C20_Witness ==
  /\ last.op = "cancel_subscription" /\ last.code = 400
  /\ last.status = "token_missing" /\ last.provider = "none"
  /\ \E t \in Tenants : /\ plans[t].paystack_subscription_code # NullStr
                        /\ plans[t].paystack_email_token = NullStr

\* the invoice a request in progress references with a charge.success, 0 if none
DeliveryInvoice(d) ==
  LET payload == deliveries[d].payload IN
  IF deliveries[d].pc # "idle" /\ payload.event = "charge.success"
       /\ IsUUID(payload.data.reference)
       /\ ParseUUID(payload.data.reference) \in DOMAIN invoices
    THEN ParseUUID(payload.data.reference) ELSE 0

\* the entitlement update is in place for tenant t
Entitled(pl, t) ==
  pl[t].exists /\ pl[t].is_active /\ pl[t].status = "ACTIVE" /\ pl[t].cycle_reset_at # Null

\* a request that failed left nothing behind that keeps its redelivery from
\* completing: processed again from the committed rows, its event pays the
\* invoice and activates the tenant, unless another request did so meanwhile
C21_RedeliveryCompletes ==
  \A d \in Slots :
    LET i == DeliveryInvoice(d) IN
    (deliveries[d].pc = "failed" /\ i # 0 /\ invoices[i].status = "PENDING") =>
      LET out == Delivered(plans, invoices, deliveries[d].payload, now) IN
      /\ out.status = "success"
      /\ out.invoices[i].status = "PAID"
      /\ Entitled(out.plans, invoices[i].tenant_id)

\* a step leaves the invoice PAID only with the entitlement update of its
\* tenant applied, applies the entitlement of a first charge only with its
\* invoice PAID, and a processing that fails commits neither
C21_AllOrNothing ==
  /\ \A i \in DOMAIN invoices :
       (invoices[i].status = "PENDING" /\ invoices'[i].status = "PAID") =>
         Entitled(plans', invoices[i].tenant_id)
  /\ \A d \in Slots :
       (deliveries[d].pc = "selected" /\ deliveries'[d].pc \in {"done", "failed"}) =>
         /\ (DeliveryInvoice(d) # 0 /\ plans' # plans) =>
              invoices'[DeliveryInvoice(d)].status = "PAID"
         /\ deliveries'[d].pc = "failed" => UNCHANGED <<plans, invoices>>

PassedAndPaid(d, i) ==
  /\ deliveries[d].pc = "done" /\ deliveries[d].outcome = "success"
  /\ DeliveryInvoice(d) = i
  /\ deliveries[d].read_invoices[i].status = "PENDING"

\* C22 as stated: of two deliveries of the same charge.success event processed
\* at once, at most one passes the idempotency check and turns the invoice
\* PAID, so that the tenant activation is applied once.
C22_SingleWriter ==
  \A d1, d2 \in Slots : \A i \in DOMAIN invoices :
    (/\ d1 # d2
     /\ deliveries[d1].pc = "done" /\ deliveries[d2].pc = "done"
     /\ deliveries[d1].payload = deliveries[d2].payload
     /\ deliveries[d1].base_invoices = deliveries[d2].base_invoices) =>
      ~(PassedAndPaid(d1, i) /\ PassedAndPaid(d2, i))

\* the billing records after payload p, then payload q, each processed with no
\* other request in between, from the rows (pl, invs)
SequentialPlans(pl, invs, p, q) ==
  LET first == Delivered(pl, invs, p, now) IN
  Delivered(first.plans, first.invoices, q, now).plans

\* two requests that arrived while the same rows were committed and were both
\* answered
ConcurrentPair(d1, d2) ==
  /\ d1 # d2
  /\ deliveries[d1].pc = "done" /\ deliveries[d2].pc = "done"
  /\ ~deliveries[d1].redelivery /\ ~deliveries[d2].redelivery
  /\ deliveries[d1].base_plans = deliveries[d2].base_plans
  /\ deliveries[d1].base_invoices = deliveries[d2].base_invoices

\* C23: after two webhook deliveries for the same tenant were processed at
\* once, the billing records are those that processing the two events one after
\* the other, in one of the two orders, produces; no interleaving leaves a mix
\* of fields that neither order produces.
C23_NoTornRecord ==
  \A d1, d2 \in Slots :
    ConcurrentPair(d1, d2) =>
      LET b == deliveries[d1] IN
      plans \in {SequentialPlans(b.base_plans, b.base_invoices,
                                 deliveries[d1].payload, deliveries[d2].payload),
                 SequentialPlans(b.base_plans, b.base_invoices,
                                 deliveries[d2].payload, deliveries[d1].payload)}

\* two different events for tenant t1 whose order matters were processed at
\* once, each having read the rows as they were before the other committed
C23_Witness ==
  \E d1, d2 \in Slots :
    /\ ConcurrentPair(d1, d2)
    /\ deliveries[d1].read_plans = deliveries[d1].base_plans
    /\ deliveries[d2].read_plans = deliveries[d2].base_plans
    /\ deliveries[d1].outcome = "success"
    /\ deliveries[d2].outcome \in {"success", "soft_deactivated"}
    /\ LET b == deliveries[d1] IN
       SequentialPlans(b.base_plans, b.base_invoices,
                       deliveries[d1].payload, deliveries[d2].payload)
         # SequentialPlans(b.base_plans, b.base_invoices,
                           deliveries[d2].payload, deliveries[d1].payload)

\* C24 as stated: delivering the same invoice.payment_succeeded event a second
\* time leaves the invoices and the billing records as they were after the
\* first delivery.
C24_RenewalIdempotent ==
  \A payload \in Payloads :
    payload.event = "invoice.payment_succeeded" =>
      LET first == Delivered(plans, invoices, payload, now)
          second == Delivered(first.plans, first.invoices, payload, now) IN
      /\ second.invoices = first.invoices
      /\ second.plans = first.plans

\* C25 as stated: after a successful first charge whose event carries a
\* subscription code and a cancel token, the invoice's tenant is active with
\* status ACTIVE and holds the event's subscription code and cancel token, so
\* that cancel_subscription is not refused with 400.
C25_StoresSubscription ==
  \A payload \in ChargePayloads :
    LET i == ReferencedInvoice(invoices, payload)
        subscription == payload.data.subscription
        out == Delivered(plans, invoices, payload, now) IN
    (/\ i # 0 /\ invoices[i].status = "PENDING"
     /\ subscription.subscription_code # NullStr
     /\ subscription.email_token # NullStr
     /\ out.status = "success") =>
       LET rec == out.plans[invoices[i].tenant_id] IN
       /\ rec.is_active /\ rec.status = "ACTIVE"
       /\ rec.paystack_subscription_code = subscription.subscription_code
       /\ rec.paystack_email_token = subscription.email_token
       /\ \A providerOk \in BOOLEAN : CancelOutcome(rec, providerOk).code # 400

\* the cycle reset an event asks for at time at: its next payment date when
\* it carries one, else 30 days from at
ExpectedReset(payload, at) ==
  LET next_payment_str == payload.data.subscription.next_payment_date IN
  IF next_payment_str # NullStr /\ IsIsoDate(next_payment_str)
    THEN ParseIsoDate(next_payment_str)
    ELSE at + CycleDays

C26_ResetWithEvent ==
  \A payload \in Payloads : \A t \in Tenants :
    LET out == Delivered(plans, invoices, payload, now) IN
    (out.plans[t].status = "ACTIVE" /\ out.plans[t] # plans[t]) =>
      out.plans[t].cycle_reset_at = ExpectedReset(payload, now)

\* C26: every transition of a tenant into ACTIVE sets cycle_reset_at in the
\* same update, to the event's next payment date when it carries one and to
\* the processing time plus 30 days otherwise; none leaves it null or at its
\* previous value.
C26_ActiveSetsReset ==
  /\ []C26_ResetWithEvent
  /\ [][\A t \in Tenants :
          (plans'[t].status = "ACTIVE" /\ plans[t].status # "ACTIVE") =>
            /\ last'.op = "webhook" /\ last'.status = "success"
            /\ plans'[t].cycle_reset_at \in {ProviderDateDay, now + CycleDays}]_vars

\* a tenant was activated by an event that carries the provider's next payment
\* date and a cancel token
C26_Witness ==
  /\ last.op = "webhook" /\ last.status = "success"
  /\ \E t \in Tenants :
       /\ plans[t].status = "ACTIVE" /\ plans[t].is_active
       /\ plans[t].cycle_reset_at = ProviderDateDay
       /\ plans[t].paystack_email_token = EventToken

\* C27: in every reachable state a tenant whose status is PENDING has
\* is_active false and cycle_reset_at null.
C27_PendingInactive ==
  \A t \in Tenants :
    (plans[t].exists /\ plans[t].status = "PENDING") =>
      (~plans[t].is_active /\ plans[t].cycle_reset_at = Null)

\* a tenant that recorded a plan intent and was refused activation for an
\* insufficient payment is still PENDING
C27_Witness ==
  /\ last.op = "webhook" /\ last.status = "error_amount_mismatch"
  /\ \E t \in Tenants :
       /\ plans[t].exists /\ plans[t].status = "PENDING" /\ plans[t].price # Null
       /\ \E i \in DOMAIN invoices :
            invoices[i].tenant_id = t /\ invoices[i].status = "PENDING"

\* what a checkout whose provider call fails leaves behind: on the plan-change
\* path nothing, on the new-session path one more invoice, PENDING, of the
\* tenant
C28_OrphanOnly ==
  \A t \in Tenants, plan_id \in CheckoutPlanIds :
    LET out == CheckoutOutcome(plans[t], profiles[t], invoices, t, plan_id, FALSE) IN
    /\ out.provider # "none" => out.code = 500
    /\ out.provider = "update_subscription" => out.invoices = invoices
    /\ out.provider = "initialize_subscription" =>
         /\ Len(out.invoices) = Len(invoices) + 1
         /\ SubSeq(out.invoices, 1, Len(invoices)) = invoices
         /\ out.invoices[Len(out.invoices)].status = "PENDING"
         /\ out.invoices[Len(out.invoices)].tenant_id = t

C29_LockImmutable ==
  [][\A t \in Tenants :
       /\ (plans[t].exists /\ plans[t].currency_lock # NullStr) =>
            (plans'[t].exists /\ plans'[t].currency_lock = plans[t].currency_lock)
       /\ (profiles[t].exists /\ profiles[t].currency_lock # NullStr) =>
            profiles'[t] = profiles[t]]_vars

\* a plan intent was applied to the record of a tenant locked to USD
C29_Witness ==
  /\ last.op = "apply_plan_intent" /\ last.code = 200
  /\ \E t \in Tenants :
       /\ plans[t].currency_lock = "USD" /\ profiles[t].currency_lock = "USD"
       /\ plans[t].price # Null /\ plans[t].paystack_plan_id # NullStr

\* the statuses a record may be in when an event arrives
SourceStatuses == {"PENDING", "ACTIVE", "CANCELLING", "EXPIRED"}

\* C30: a subscription.disable event is applied whatever the current status of
\* the tenant is, a terminal or CANCELLING one included: the record whose
\* stored subscription code matches becomes CANCELLING with its other fields
\* as they were, and applying the event twice gives the record that applying
\* it once gives.
C30_DisableUnguarded ==
  \A payload \in Payloads :
    payload.event = "subscription.disable" =>
      LET once == Delivered(plans, invoices, payload, now)
          twice == Delivered(once.plans, once.invoices, payload, now) IN
      /\ once.code = 200 /\ once.invoices = invoices
      /\ \A t \in Tenants :
           once.plans[t] =
             IF plans[t].exists
                  /\ plans[t].paystack_subscription_code = payload.data.subscription_code
                  /\ plans[t].status \in SourceStatuses
               THEN [plans[t] EXCEPT !.status = "CANCELLING"]
               ELSE plans[t]
      /\ twice.plans = once.plans /\ twice.invoices = once.invoices

\* a subscription.disable was applied to a tenant whose access the sweeper had
\* ended: the record is CANCELLING again, still without access
C30_Witness ==
  /\ last.op = "webhook" /\ last.event = "subscription.disable"
  /\ last.status = "soft_deactivated"
  /\ \E t \in Tenants :
       /\ plans[t].status = "CANCELLING" /\ ~plans[t].is_active
       /\ plans[t].cycle_reset_at # Null /\ plans[t].cycle_reset_at <= now

\* ------------------------------------------------------------------------
\* C31: from freshly created rows (PENDING, is_active false, cycle_reset_at
\* null), in every state that plan intents and webhook events lead to, a row
\* with is_active true has a non-null cycle_reset_at and status ACTIVE or
\* CANCELLING.
C31_ActiveWellFormed ==
  \A t \in Tenants :
    (plans[t].exists /\ plans[t].is_active) =>
      /\ plans[t].cycle_reset_at # Null
      /\ plans[t].status \in {"ACTIVE", "CANCELLING"}

\* a tenant whose access was granted by a payment event and who then had the
\* subscription disabled: is_active still true, status CANCELLING
C31_Witness ==
  \E t \in Tenants :
    /\ plans[t].exists /\ plans[t].is_active
    /\ plans[t].status = "CANCELLING"
    /\ last.op = "webhook" /\ last.event = "subscription.disable"

\* ------------------------------------------------------------------------
\* the subscription code an event carries: for subscription.disable the
\* top-level one, for a payment event the subscription object's, else the
\* top-level one
EventSubCode(payload) ==
  IF payload.event = "subscription.disable" THEN payload.data.subscription_code
  ELSE IF payload.data.subscription.subscription_code # NullStr
    THEN payload.data.subscription.subscription_code
  ELSE payload.data.subscription_code

\* C32: an authenticated subscription.disable or invoice.payment_succeeded
\* event changes no record whose stored subscription id differs from the
\* event's subscription code, and an event without a subscription code
\* changes no record at all, also not the records whose stored subscription
\* id is null.
C32_OnlyKeyedTenant ==
  \A payload \in Payloads :
    payload.event \in {"subscription.disable", "invoice.payment_succeeded"} =>
      LET out == Delivered(plans, invoices, payload, now)
          key == EventSubCode(payload)
      IN \A t \in Tenants :
           out.plans[t] # plans[t] =>
             key # NullStr /\ plans[t].paystack_subscription_code = key

\* ------------------------------------------------------------------------
\* C33: whenever an authenticated charge.success event marks invoice I PAID,
\* the record that event activates is the one of I's owning tenant and no
\* other record changes, also when the event carries a subscription code
\* that another tenant's record stores.
C33_ActivatesOwner ==
  \A payload \in ChargePayloads :
    LET out == Delivered(plans, invoices, payload, now)
        i == ReferencedInvoice(invoices, payload)
    IN (i # 0 /\ invoices[i].status = "PENDING" /\ out.invoices[i].status = "PAID") =>
         LET owner == invoices[i].tenant_id IN
         /\ out.plans[owner].is_active /\ out.plans[owner].status = "ACTIVE"
         /\ \A t \in Tenants \ {owner} : out.plans[t] = plans[t]

\* ------------------------------------------------------------------------
\* C34: an authenticated charge.success turns a tenant's is_active from false
\* to true only if it references an existing PENDING invoice whose amount the
\* event amount covers; without a reference, or with an unknown or already
\* PAID reference, it grants nothing.
C34_PaidInvoiceOnly ==
  \A payload \in ChargePayloads :
    LET out == Delivered(plans, invoices, payload, now)
        i == ReferencedInvoice(invoices, payload)
    IN \A t \in Tenants :
         (plans[t].exists /\ ~plans[t].is_active /\ out.plans[t].is_active) =>
           /\ i # 0
           /\ invoices[i].status = "PENDING"
           /\ payload.data.amount # Null
           /\ payload.data.amount >= invoices[i].amount * KoboPerUnit

\* ------------------------------------------------------------------------
\* C35: an authenticated charge.success or invoice.payment_succeeded never
\* replaces a stored cancel token or subscription id by null; a tenant whose
\* cancellation passed the missing-identifier checks before the event passes
\* them after it, whether or not the event carries an email_token.
C35_KeepsIdentifiers ==
  \A payload \in Payloads :
    payload.event \in PaymentEvents =>
      LET out == Delivered(plans, invoices, payload, now) IN
      \A t \in Tenants :
        /\ plans[t].paystack_email_token # NullStr =>
             out.plans[t].paystack_email_token # NullStr
        /\ plans[t].paystack_subscription_code # NullStr =>
             out.plans[t].paystack_subscription_code # NullStr
        /\ CancelOutcome(plans[t], TRUE).provider = "cancel_subscription" =>
             CancelOutcome(out.plans[t], TRUE).provider = "cancel_subscription"

\* ------------------------------------------------------------------------
\* the columns apply_plan_intent does not assign
IntentFrame(rec) ==
  [exists |-> rec.exists, status |-> rec.status,
   paystack_subscription_code |-> rec.paystack_subscription_code,
   paystack_email_token |-> rec.paystack_email_token,
   currency_lock |-> rec.currency_lock]

C36_OutcomeFrame ==
  \A t \in Tenants, plan \in PlanInputs, interval \in IntervalInputs, auditOk \in BOOLEAN :
    IntentFrame(PlanIntentOutcome(plans[t], plan, interval, now, auditOk).rec)
      = IntentFrame(plans[t])

C36_StepFrame ==
  last'.op = "apply_plan_intent" =>
    \A t \in Tenants : IntentFrame(plans'[t]) = IntentFrame(plans[t])

\* C36: apply_plan_intent leaves status, the stored subscription id, the
\* stored cancel token and currency_lock of every record unchanged, whatever
\* the record held before and whether the call succeeds or fails; the status
\* of an ACTIVE or CANCELLING tenant is not reset by picking a plan.
C36_IntentFrame ==
  /\ []C36_OutcomeFrame
  /\ [][C36_StepFrame]_vars

\* a tenant in its grace period picked a plan: the call succeeded, the record
\* is still CANCELLING and still holds both provider identifiers
C36_Witness ==
  /\ last.op = "apply_plan_intent" /\ last.code = 200
  /\ \E t \in Tenants :
       /\ plans[t].status = "CANCELLING"
       /\ ~plans[t].is_active /\ plans[t].cycle_reset_at = Null
       /\ plans[t].plan_code = "GROWTH"
       /\ plans[t].paystack_subscription_code # NullStr
       /\ plans[t].paystack_email_token # NullStr

\* ------------------------------------------------------------------------
\* the ids of the books are strictly increasing in list order, hence
\* pairwise distinct
C37_IdsIncreasing ==
  \A i, j \in 1..Len(BOOKS) : i < j => BOOKS[i].id < BOOKS[j].id

\* create_book appends the request's book under the last book's id plus 1,
\* or 1 when the list is empty, whatever id the request carries
C37_CreateAssigns ==
  last'.op = "create_book" =>
    /\ BOOKS' = Append(BOOKS,
                       [last'.request EXCEPT
                          !.id = IF Len(BOOKS) > 0 THEN BOOKS[Len(BOOKS)].id + 1 ELSE 1])
    /\ last'.response = BOOKS'[Len(BOOKS')]

\* C37: after any sequence of create_book, update_book and delete_book calls
\* the ids of the books in BOOKS are pairwise distinct and strictly increasing
\* in list order; create_book ignores a client-supplied id and assigns the
\* last book's id plus 1, or 1 when the list is empty.
C37_BookIds ==
  /\ []C37_IdsIncreasing
  /\ [][C37_CreateAssigns]_vars

\* every book was deleted and a request that carried id 5 created the only
\* book of the list, under id 1
C37_Witness ==
  /\ last.op = "create_book" /\ last.request.id = 5
  /\ Len(BOOKS) = 1 /\ BOOKS[1].id = 1

Next ==
  \/ \E t \in Tenants, plan \in PlanInputs, interval \in IntervalInputs, auditOk \in BOOLEAN :
        apply_plan_intent(t, plan, interval, auditOk)
  \/ \E t \in Tenants, plan_id \in CheckoutPlanIds, providerOk \in BOOLEAN :
        subscription_checkout(t, plan_id, providerOk)
  \/ \E t \in Tenants, providerOk \in BOOLEAN : cancel_subscription(t, providerOk)
  \/ \E payload \in Payloads : \E paystack_signature \in Presented(payload) :
        paystack_billing_webhook(paystack_signature, payload)

Spec == Init /\ [][Next]_vars

\* ------------------------------------------------------------------------
\* The sweeper next to the operations that write the records it selects
\* ------------------------------------------------------------------------
SweepInit ==
  /\ plans = [t \in Tenants |->
                FreshPlan("NGN", IF t = "t1" THEN "SUB_A" ELSE "SUB_B", InitialToken)]
  /\ profiles = [t \in Tenants |-> [exists |-> TRUE, currency_lock |-> "NGN"]]
  /\ invoices = <<>>
  /\ now = 0
  /\ last = NoOp
  /\ sweeper = NoRun
  /\ deliveries = NoDelivery
  /\ BOOKS = NoBooks

SweepPayloads ==
  {Payload("subscription.disable", NoReference, Null, c, NoSubscription, <<>>) : c \in SubCodes}
  \cup {Payload("charge.success", NoReference, 2500000, NullStr,
                Subscription(c, EventToken, NullStr), <<>>) : c \in SubCodes}

SweepNext ==
  \/ Tick
  \/ \E r \in Runs : StartSweep(r)
  \/ \E r \in Runs : SweepStatement(r)
  \/ \E payload \in SweepPayloads : paystack_billing_webhook(Signed(payload), payload)
  \/ \E t \in Tenants : apply_plan_intent(t, "GROWTH", "monthly", TRUE)

SweepSpec ==
  /\ SweepInit /\ [][SweepNext]_vars
  /\ \A r \in Runs : WF_vars(StartSweep(r)) /\ WF_vars(SweepStatement(r))

\* ------------------------------------------------------------------------
\* The catalogue lookup called with every combination of arguments
\* ------------------------------------------------------------------------
ResolveInit ==
  /\ plans = [t \in Tenants |-> NoPlan]
  /\ profiles = [t \in Tenants |-> [exists |-> FALSE, currency_lock |-> NullStr]]
  /\ invoices = <<>>
  /\ now = 0
  /\ last = NoOp
  /\ sweeper = NoRun
  /\ deliveries = NoDelivery
  /\ BOOKS = NoBooks

ResolveNext ==
  \E plan \in ResolvePlans, interval \in ResolveIntervals, currency \in ResolveCurrencies :
    ResolveCall(plan, interval, currency)

ResolveSpec == ResolveInit /\ [][ResolveNext]_vars

\* ------------------------------------------------------------------------
\* Cancellation requests against every kind of stored subscription
\* ------------------------------------------------------------------------
\* the rows cancellation distinguishes: no subscription stored, a subscription
\* stored with its cancel token, a subscription stored without one
CancelSetups ==
  { FreshPlan("NGN", NullStr, NullStr),
    FreshPlan("NGN", "SUB_A", InitialToken),
    FreshPlan("NGN", "SUB_B", NullStr) }

CancelInit ==
  /\ plans \in [Tenants -> CancelSetups \cup {NoPlan}]
  /\ profiles = [t \in Tenants |->
                   [exists |-> plans[t].exists, currency_lock |-> plans[t].currency_lock]]
  /\ invoices = <<>>
  /\ now = 0
  /\ last = NoOp
  /\ sweeper = NoRun
  /\ deliveries = NoDelivery
  /\ BOOKS = NoBooks

\* the subscription.disable events the provider sends after a cancellation
CancelPayloads ==
  {Payload("subscription.disable", NoReference, Null, c, NoSubscription, <<>>) : c \in SubCodes}

CancelNext ==
  \/ \E t \in Tenants, providerOk \in BOOLEAN : cancel_subscription(t, providerOk)
  \/ \E payload \in CancelPayloads : paystack_billing_webhook(Signed(payload), payload)
  \/ \E t \in Tenants : apply_plan_intent(t, "GROWTH", "monthly", TRUE)

CancelSpec == CancelInit /\ [][CancelNext]_vars

\* ------------------------------------------------------------------------
\* Two webhook requests for one tenant in progress at once
\* ------------------------------------------------------------------------
\* a tenant that chose GROWTH, holds a subscription and has one unpaid invoice
\* from checkout
RaceInit ==
  /\ plans = [t \in Tenants |->
                IF t = "t1"
                  THEN PlanIntentOutcome(FreshPlan("NGN", "SUB_A", InitialToken),
                                         "GROWTH", "monthly", 0, TRUE).rec
                  ELSE NoPlan]
  /\ profiles = [t \in Tenants |->
                   [exists |-> plans[t].exists, currency_lock |-> plans[t].currency_lock]]
  /\ invoices = <<NewInvoice("t1", plans["t1"].price, "PENDING")>>
  /\ now = 0
  /\ last = NoOp
  /\ sweeper = NoRun
  /\ deliveries = NoDelivery
  /\ BOOKS = NoBooks

\* the events the provider sends for that tenant
RacePayloads ==
  {Payload("charge.success", InvoiceRef(1), 2500000, NullStr, s, <<>>) :
     s \in {NoSubscription, Subscription(NullStr, EventToken, ProviderDate)}}
  \cup {Payload("charge.success", NoReference, 2500000, NullStr, s, <<>>) :
          s \in {Subscription("SUB_A", NullStr, NullStr),
                 Subscription("SUB_A", EventToken, ProviderDate)}}
  \cup {Payload("invoice.payment_succeeded", NoReference, 2500000, NullStr,
                 Subscription("SUB_A", EventToken, ProviderDate), <<>>)}
  \cup {Payload("subscription.disable", NoReference, Null, "SUB_A", NoSubscription, <<>>)}

RaceNext ==
  \/ \E d \in Slots, payload \in RacePayloads : Receive(d, payload)
  \/ \E d \in Slots : Select(d)
  \/ \E d \in Slots : Complete(d)
  \/ \E d \in Slots : Fail(d)
  \/ NextPair

RaceSpec == RaceInit /\ [][RaceNext]_vars

\* ------------------------------------------------------------------------
\* Two tenants served side by side: one whose record stores a subscription,
\* one who is about to pay a first invoice
\* ------------------------------------------------------------------------
TwoTenantInit ==
  /\ plans = [t \in Tenants |->
                IF t = "t1" THEN FreshPlan("NGN", "SUB_A", InitialToken)
                            ELSE FreshPlan("NGN", NullStr, NullStr)]
  /\ profiles = [t \in Tenants |->
                   [exists |-> plans[t].exists, currency_lock |-> plans[t].currency_lock]]
  /\ invoices = <<>>
  /\ now = 0
  /\ last = NoOp
  /\ sweeper = NoRun
  /\ deliveries = NoDelivery
  /\ BOOKS = NoBooks

\* the charge events of a first payment, without a subscription object, with
\* the subscription the first tenant holds, with one nobody holds
TwoTenantPayloads ==
  {Payload("charge.success", r, 2500000, NullStr, s, <<>>) :
     r \in {InvoiceRef(i) : i \in 1..MaxInvoices},
     s \in {NoSubscription, Subscription("SUB_A", EventToken, ProviderDate),
            Subscription("SUB_B", NullStr, NullStr)}}

TwoTenantNext ==
  \/ \E t \in Tenants : apply_plan_intent(t, "GROWTH", "monthly", TRUE)
  \/ \E t \in Tenants, providerOk \in BOOLEAN : subscription_checkout(t, "growth", providerOk)
  \/ \E payload \in TwoTenantPayloads : paystack_billing_webhook(Signed(payload), payload)

TwoTenantSpec == TwoTenantInit /\ [][TwoTenantNext]_vars

\* ------------------------------------------------------------------------
\* The book store on its own
\* ------------------------------------------------------------------------
BookInit ==
  /\ plans = [t \in Tenants |-> NoPlan]
  /\ profiles = [t \in Tenants |->
                   [exists |-> plans[t].exists, currency_lock |-> plans[t].currency_lock]]
  /\ invoices = <<>>
  /\ now = 0
  /\ last = ServedBook("none", NoBook, 0, NoBook)
  /\ sweeper = NoRun
  /\ deliveries = NoDelivery
  /\ BOOKS = InitialBooks

BookNext ==
  \/ \E book \in BookRequests : create_book(book)
  \/ \E book \in BookRequests : update_book(book)
  \/ \E book_id \in BookIds : delete_book(book_id)

BookSpec == BookInit /\ [][BookNext]_vars

====
